---------------------------- MODULE Spec2Model ----------------------------
(* bucket-transfer.py: copy every object named in a JSON manifest into a   *)
(* target bucket with the provider's resumable rewrite, compare source and *)
(* target metadata, and append the target metadata to an output file.      *)
(*                                                                         *)
(* Python strings that the program takes apart (object paths) are          *)
(* sequences of one-character strings; strings it only compares are TLA+   *)
(* strings.  Python's None is the string "None" where the other values are *)
(* strings, and the record NoneBlob where the other values are blobs.      *)
EXTENDS Integers, Sequences, FiniteSets, TLC

VARIABLES
    data,               \* json.load(json_file): the manifest, a list of entries
    delete_source,      \* args.delete_source
    meta_outfile,       \* content of the file args.meta_outfile, one element per write
    source_store,       \* objects in the source buckets
    target_store,       \* objects in the target bucket, by name
    pc,                 \* position of main()
    i,                  \* number of entries the for loop has started
    source_bucket_name, source_path, db_id, target_path,
    source_blob, source_metadata, target_blob, token,
    target_metadata, output_metadata, diffs,
    calls,              \* history: token argument of each rewrite call of this entry
    results,            \* history: result[0] of each rewrite call of this entry
    trace,              \* history: stages this entry has passed
    exception,          \* the uncaught exception, when one was raised
    exit_status         \* process exit status; -1 while running

vars == <<data, delete_source, meta_outfile, source_store, target_store, pc, i,
          source_bucket_name, source_path, db_id, target_path,
          source_blob, source_metadata, target_blob, token,
          target_metadata, output_metadata, diffs,
          calls, results, trace, exception, exit_status>>

locals == <<source_bucket_name, source_path, db_id, target_path,
            source_blob, source_metadata, target_blob, token,
            target_metadata, output_metadata, diffs>>

-----------------------------------------------------------------------------
(* Bounds *)

MaxEntries == 2     \* longest manifest
MaxChunks == 3      \* most rewrite calls that return a continuation token
MaxPathLen == 6     \* longest path of the single-entry manifests

-----------------------------------------------------------------------------
(* Values *)

None == "None"
NoneBlob == [kind |-> "None"]
\* The value of a local variable of main() that has not been assigned yet: a
\* string, a path, an object (blob or dict), a list of diffs.
Unbound == "unbound"
UnboundPath == <<"unbound">>
UnboundObject == [kind |-> "unbound"]
UnboundDiffs == {<<"unbound">>}

LegacyBucket == "gbsc-gcp-project-mvp-phase-2-data"
OtherBucket == "other-source-bucket"
AbsentBucket == "absent-bucket"
TargetBucket == "target-bucket"
ExistingBuckets == {LegacyBucket, OtherBucket, TargetBucket}

\* "d/b/4/x.t.z" and "y"
PathA == <<"d", "/", "b", "/", "4", "/", "x", ".", "t", ".", "z">>
PathB == <<"y">>

-----------------------------------------------------------------------------
(* Python string operations, on sequences of characters *)

\* Position of the first occurrence of character c in s, 0 when there is none.
Find(s, c) ==
    IF \E k \in 1..Len(s) : s[k] = c
    THEN CHOOSE k \in 1..Len(s) : s[k] = c /\ \A j \in 1..(k - 1) : s[j] # c
    ELSE 0

\* Position of the last occurrence of character c in s, 0 when there is none.
RFind(s, c) ==
    IF \E k \in 1..Len(s) : s[k] = c
    THEN CHOOSE k \in 1..Len(s) : s[k] = c /\ \A j \in (k + 1)..Len(s) : s[j] # c
    ELSE 0

\* s.split(c): the list of the pieces of s between occurrences of c.
RECURSIVE Split(_, _)
Split(s, c) ==
    IF Find(s, c) = 0
    THEN <<s>>
    ELSE <<SubSeq(s, 1, Find(s, c) - 1)>> \o Split(SubSeq(s, Find(s, c) + 1, Len(s)), c)

\* c.join(elements)
RECURSIVE Join(_, _)
Join(elements, c) ==
    IF elements = <<>> THEN <<>>
    ELSE IF Len(elements) = 1 THEN elements[1]
    ELSE elements[1] \o <<c>> \o Join(Tail(elements), c)

\* elements[n:] for n >= 0
SliceFrom(elements, n) == SubSeq(elements, n + 1, Len(elements))

\* s.rstrip(c)
RECURSIVE RStrip(_, _)
RStrip(s, c) ==
    IF s # <<>> /\ s[Len(s)] = c THEN RStrip(SubSeq(s, 1, Len(s) - 1), c) ELSE s

\* os.path.dirname(path) (posixpath)
dirname(path) ==
    LET head == SubSeq(path, 1, RFind(path, "/"))
    IN  IF head # <<>> /\ \E k \in 1..Len(head) : head[k] # "/"
        THEN RStrip(head, "/")
        ELSE head

\* os.path.basename(path) (posixpath)
basename(path) == SubSeq(path, RFind(path, "/") + 1, Len(path))

-----------------------------------------------------------------------------
(* Blobs and their metadata *)

\* A datetime is its number of seconds since 1970-01-01T00:00:00Z.
EpochDatetime == 0

get_seconds_from_epoch(datetime_obj) == datetime_obj - EpochDatetime

isoformat(datetime_obj) == <<"iso", datetime_obj>>

\* The properties of a stored object, as the storage API reports them.
StoredBlob(bucket, name, size, md5, crc, ctype, created) ==
    [loaded |-> TRUE, bucket |-> bucket, name |-> name,
     id |-> <<bucket, name, created>>,
     size |-> size, md5_hash |-> md5, crc32c |-> crc,
     storage_class |-> "STANDARD",
     time_created |-> created, updated |-> created,
     self_link |-> <<"storage/v1", bucket, name>>,
     public_url |-> <<"storage.googleapis.com", bucket, name>>,
     content_type |-> ctype]

\* Blob(name, bucket): a handle whose properties have not been loaded.
Blob(name, bucket) ==
    [loaded |-> FALSE, bucket |-> bucket, name |-> name,
     id |-> None, size |-> None, md5_hash |-> None, crc32c |-> None,
     storage_class |-> None, time_created |-> None, updated |-> None,
     self_link |-> None, public_url |-> None, content_type |-> None]

\* get_blob_metadata dereferences blob.bucket (AttributeError on None) and
\* subtracts datetimes from blob.time_created (TypeError when not loaded).
MetadataError(blob) ==
    IF blob = NoneBlob THEN "AttributeError"
    ELSE IF ~blob.loaded THEN "TypeError"
    ELSE None

get_blob_metadata(blob) ==
    LET path == blob.name
        elements == Split(basename(path), ".")
    IN  ("bucket" :> blob.bucket) @@
        ("path" :> path) @@
        ("dirname" :> dirname(path)) @@
        ("basename" :> basename(path)) @@
        ("name" :> elements[1]) @@
        ("extension" :> Join(SliceFrom(elements, 1), ".")) @@
        ("gcs-id" :> blob.id) @@
        ("size" :> blob.size) @@
        ("md5_hash" :> blob.md5_hash) @@
        ("crc23c" :> blob.crc32c) @@
        ("gcs-storage-class" :> blob.storage_class) @@
        ("time-created-epoch" :> get_seconds_from_epoch(blob.time_created)) @@
        ("time-created-iso" :> isoformat(blob.time_created)) @@
        ("time-updated-epoch" :> get_seconds_from_epoch(blob.updated)) @@
        ("time-updated-iso" :> isoformat(blob.updated)) @@
        ("self-link" :> blob.self_link) @@
        ("public-url" :> blob.public_url) @@
        ("content-type" :> blob.content_type)

\* dictdiffer.diff(first, second) of two flat dicts, as the set of its tuples.
Diff(first, second) ==
    LET common == DOMAIN first \cap DOMAIN second
        added == DOMAIN second \ DOMAIN first
        removed == DOMAIN first \ DOMAIN second
    IN  {<<"change", k, <<first[k], second[k]>>>> : k \in {c \in common : first[c] # second[c]}}
        \cup (IF added = {} THEN {} ELSE {<<"add", "", {<<k, second[k]>> : k \in added}>>})
        \cup (IF removed = {} THEN {} ELSE {<<"remove", "", {<<k, first[k]>> : k \in removed}>>})

-----------------------------------------------------------------------------
(* The storage provider *)

\* Every source object has the same content; only its bucket and name vary.
SourceObject(bucket, name) == StoredBlob(bucket, name, 7, "md5-A", "crc-A", "text/a", 1)

\* What the provider may report for the object a rewrite has produced: each
\* integrity field either that of the source or another value.
RewrittenObjects(source, name) ==
    {StoredBlob(TargetBucket, name, source.size, md5, crc, ctype, source.time_created + 1) :
        md5 \in {source.md5_hash, "md5-B"},
        crc \in {source.crc32c, "crc-B"},
        ctype \in {source.content_type, "text/b"}}

\* bucket.get_blob(path): the blob, or None when the bucket has no such object.
get_blob(store, bucket, path) ==
    IF \E o \in store : o.bucket = bucket /\ o.name = path
    THEN CHOOSE o \in store : o.bucket = bucket /\ o.name = path
    ELSE NoneBlob

\* The rewrite token the provider hands out at the n-th call of one copy.
TokenNames == <<"token-1", "token-2", "token-3", "token-4", "token-5">>

-----------------------------------------------------------------------------
(* Inputs *)

Entry(id, bucket, path) == [id |-> id, node |-> [bucket |-> bucket, path |-> path]]

SampleEntries ==
    {Entry("id-7", LegacyBucket, PathA),
     Entry("id-3", OtherBucket, PathA),
     Entry("id-5", OtherBucket, PathB),
     Entry("id-9", AbsentBucket, PathB)}

RECURSIVE SeqsUpTo(_, _)
SeqsUpTo(S, n) ==
    IF n = 0 THEN {<<>>}
    ELSE LET shorter == SeqsUpTo(S, n - 1)
         IN  shorter \cup {Append(q, x) : q \in {r \in shorter : Len(r) = n - 1}, x \in S}

\* Every non-empty object path of at most MaxPathLen characters over "a", "/".
AllPaths == SeqsUpTo({"a", "/"}, MaxPathLen) \ {<<>>}

\* Manifests of sample entries, and single-entry manifests over every path.
SampleManifests == SeqsUpTo(SampleEntries, MaxEntries) \ {<<>>}

PathManifests == {<<Entry("id-1", b, p)>> : b \in {LegacyBucket, OtherBucket}, p \in AllPaths}

\* The source objects the manifest names, without the one of entry `missing`.
SourceObjects(manifest, missing) ==
    {SourceObject(manifest[k].node.bucket, manifest[k].node.path) :
        k \in {j \in 1..Len(manifest) :
                 /\ manifest[j].node.bucket \in ExistingBuckets
                 /\ (missing = 0 \/ manifest[j].node # manifest[missing].node)}}

\* A record some earlier run left in the output file.
PriorContent == [json |-> [path |-> <<"o", "l", "d">>]]

-----------------------------------------------------------------------------
(* main() *)

Init ==
    /\ \/ /\ data \in SampleManifests
          /\ delete_source \in BOOLEAN
          /\ meta_outfile \in {<<>>, <<PriorContent>>}
          /\ \E missing \in 0..Len(data) : source_store = SourceObjects(data, missing)
       \/ /\ data \in PathManifests
          /\ delete_source = FALSE
          /\ meta_outfile = <<>>
          /\ source_store = SourceObjects(data, 0)
    /\ target_store = <<>>
    /\ pc = "for"
    /\ i = 0
    /\ source_bucket_name = Unbound /\ source_path = UnboundPath /\ db_id = Unbound
    /\ target_path = UnboundPath /\ token = Unbound
    /\ source_blob = UnboundObject /\ target_blob = UnboundObject
    /\ source_metadata = UnboundObject /\ target_metadata = UnboundObject
    /\ output_metadata = UnboundObject /\ diffs = UnboundDiffs
    /\ calls = <<>> /\ results = <<>> /\ trace = <<>>
    /\ exception = None
    /\ exit_status = -1

\* An exception nothing catches: the interpreter prints it and exits with 1.
Raise(exc) ==
    /\ pc' = "raised"
    /\ exception' = exc
    /\ exit_status' = 1

\* sys.exit() without an argument raises SystemExit(None): exit status 0.
SysExit ==
    /\ pc' = "exited"
    /\ exit_status' = 0
    /\ UNCHANGED exception

\* A rewrite rule that trims one path element only.
TargetPathTrimOne(bucket_name, path) ==
    IF bucket_name = "gbsc-gcp-project-mvp-phase-2-data"
    THEN Join(SliceFrom(Split(path, "/"), 1), "/")
    ELSE path

\* The target path of an object of bucket `bucket_name` at `path`.
TargetPath(bucket_name, path) ==
    IF bucket_name = "gbsc-gcp-project-mvp-phase-2-data"
    THEN Join(SliceFrom(Split(path, "/"), 2), "/")
    ELSE path

\* for entry in data: ... client.get_bucket(source_bucket_name) ... target_path
BeginEntry ==
    /\ pc = "for"
    /\ i < Len(data)
    /\ i' = i + 1
    /\ source_bucket_name' = data[i + 1].node.bucket
    /\ source_path' = data[i + 1].node.path
    /\ db_id' = data[i + 1].id
    /\ calls' = <<>> /\ results' = <<>> /\ trace' = <<>>
    /\ IF data[i + 1].node.bucket \in ExistingBuckets
       THEN /\ target_path' = TargetPath(data[i + 1].node.bucket, data[i + 1].node.path)
            /\ pc' = "get_blob"
            /\ UNCHANGED <<exception, exit_status>>
       ELSE /\ Raise("NotFound")
            /\ UNCHANGED target_path
    /\ UNCHANGED <<data, delete_source, meta_outfile, source_store, target_store,
                   source_blob, source_metadata, target_blob, token,
                   target_metadata, output_metadata, diffs>>

\* The for loop is exhausted: main() returns and the process exits with 0.
FinishRun ==
    /\ pc = "for"
    /\ i = Len(data)
    /\ pc' = "done"
    /\ exit_status' = 0
    /\ UNCHANGED <<data, delete_source, meta_outfile, source_store, target_store, i,
                   locals, calls, results, trace, exception>>

\* source_blob = source_bucket.get_blob(source_path); source_metadata = ...;
\* target_blob = Blob(target_path, target_bucket); token = None
GetSourceBlob ==
    /\ pc = "get_blob"
    /\ LET blob == get_blob(source_store, source_bucket_name, source_path)
       IN  /\ source_blob' = blob
           /\ IF MetadataError(blob) # None
              THEN /\ Raise(MetadataError(blob))
                   /\ UNCHANGED <<source_metadata, target_blob, token, trace>>
              ELSE /\ source_metadata' = get_blob_metadata(blob)
                   /\ target_blob' = Blob(target_path, TargetBucket)
                   /\ token' = None
                   /\ trace' = Append(trace, "Fetched")
                   /\ pc' = "rewrite"
                   /\ UNCHANGED <<exception, exit_status>>
    /\ UNCHANGED <<data, delete_source, meta_outfile, source_store, target_store, i,
                   source_bucket_name, source_path, db_id, target_path,
                   target_metadata, output_metadata, diffs, calls, results>>

\* A copy made with a single rewrite call.
LoopNeverContinues(tok) == FALSE

\* if token: (keep polling) else: break
LoopContinues(tok) == tok # None /\ tok # ""

\* A loop that restarts the copy at every call.
NextTokenDropped(result) == None

\* The token passed to the next rewrite call, after a call returned `result`.
NextToken(result) == result[1]

\* One pass of the while loop after target_blob.rewrite(source_blob, token=token)
\* returned `result`, having left the target blob handle as `blob`.
RewriteReturns(result, blob) ==
    /\ calls' = Append(calls, token)
    /\ results' = Append(results, result[1])
    /\ token' = NextToken(result)
    /\ target_blob' = blob
    /\ IF LoopContinues(NextToken(result))
       THEN /\ pc' = "rewrite"
            /\ trace' = IF trace[Len(trace)] = "Copying" THEN trace ELSE Append(trace, "Copying")
       ELSE /\ pc' = "target_meta"
            /\ trace' = (IF trace[Len(trace)] = "Copying" THEN trace ELSE Append(trace, "Copying"))
                        \o <<"Copied">>
    /\ UNCHANGED <<exception, exit_status>>

\* The provider has copied part of the object and returns a rewrite token.
RewriteProgress ==
    /\ pc = "rewrite"
    /\ target_path # <<>>
    /\ Len(calls) < MaxChunks
    /\ RewriteReturns(<<TokenNames[Len(calls) + 1], Len(calls) + 1, source_blob.size>>, target_blob)
    /\ UNCHANGED <<data, delete_source, meta_outfile, source_store, target_store, i,
                   source_bucket_name, source_path, db_id, target_path,
                   source_blob, source_metadata, target_metadata, output_metadata, diffs>>

\* The provider has finished the copy: the object is in the target bucket, the
\* handle holds its properties and no token is returned.
RewriteDone ==
    /\ pc = "rewrite"
    /\ target_path # <<>>
    /\ \E resource \in RewrittenObjects(source_blob, target_blob.name) :
          /\ target_store' = (target_blob.name :> resource) @@ target_store
          /\ RewriteReturns(<<None, source_blob.size, source_blob.size>>, resource)
    /\ UNCHANGED <<data, delete_source, meta_outfile, source_store, i,
                   source_bucket_name, source_path, db_id, target_path,
                   source_blob, source_metadata, target_metadata, output_metadata, diffs>>

\* The rewrite call fails (network or provider error; an empty object name is
\* always refused): the exception leaves the loop and main().
RewriteRaises ==
    /\ pc = "rewrite"
    /\ calls' = Append(calls, token)
    /\ Raise("TransportError")
    /\ UNCHANGED <<data, delete_source, meta_outfile, source_store, target_store, i,
                   locals, results, trace>>

\* target_metadata = get_blob_metadata(target_blob); output_metadata = {...};
\* diffs = list(dictdiffer.diff(source_metadata, target_metadata))
GetTargetMetadata ==
    /\ pc = "target_meta"
    /\ IF MetadataError(target_blob) # None
       THEN /\ Raise(MetadataError(target_blob))
            /\ UNCHANGED <<target_metadata, output_metadata, diffs>>
       ELSE /\ target_metadata' = get_blob_metadata(target_blob)
            /\ output_metadata' = [id |-> db_id, node |-> get_blob_metadata(target_blob)]
            /\ diffs' = Diff(source_metadata, get_blob_metadata(target_blob))
            /\ pc' = "check"
            /\ UNCHANGED <<exception, exit_status>>
    /\ UNCHANGED <<data, delete_source, meta_outfile, source_store, target_store, i,
                   source_bucket_name, source_path, db_id, target_path,
                   source_blob, source_metadata, target_blob, token,
                   calls, results, trace>>

\* A check list that names the CRC property by the blob's attribute name.
IntegrityFieldsByAttribute == {"md5_hash", "crc32c", "content-type"}

\* The metadata properties whose change ends the run.
IntegrityFields == {"md5_hash", "crc23c", "content-type"}

\* for diff in diffs: if diff[1] in [...]: logging.error(...); sys.exit()
ContentChanged(ds) == \E diff \in ds : diff[2] \in IntegrityFields

IntegrityCheck ==
    /\ pc = "check"
    /\ IF ContentChanged(diffs)
       THEN /\ SysExit
            /\ UNCHANGED trace
       ELSE /\ pc' = "write"
            /\ trace' = Append(trace, "Verified")
            /\ UNCHANGED <<exception, exit_status>>
    /\ UNCHANGED <<data, delete_source, meta_outfile, source_store, target_store, i,
                   locals, calls, results>>

\* source_bucket.delete_blob(source_path), run whatever the flag says.
DeleteSourceAlways(store, flag, bucket, path) ==
    {o \in store : ~(o.bucket = bucket /\ o.name = path)}

\* #if delete_source: source_bucket.delete_blob(source_path)   (commented out)
DeleteSource(store, flag, bucket, path) == store

\* json.dumps(value): the JSON text of value
JsonDumps(value) == [json |-> value]

\* The value a JSON text denotes
JsonLoads(text) == text.json

\* open(meta_outfile, 'w').write(text)
FileOverwrite(content, text) == <<text>>

\* open(meta_outfile, 'a').write(text)
FileAppend(content, text) == Append(content, text)

\* What main() writes for the entry: json.dumps(target_metadata).
WrittenValue(output, target) == target

WriteRecord ==
    /\ pc = "write"
    /\ source_store' = DeleteSource(source_store, delete_source, source_bucket_name, source_path)
    /\ meta_outfile' = FileAppend(meta_outfile, JsonDumps(WrittenValue(output_metadata, target_metadata)))
    /\ trace' = Append(trace, "Logged")
    /\ pc' = "for"
    /\ UNCHANGED <<data, delete_source, target_store, i, locals, calls, results,
                   exception, exit_status>>

Next ==
    \/ BeginEntry
    \/ FinishRun
    \/ GetSourceBlob
    \/ RewriteProgress
    \/ RewriteDone
    \/ RewriteRaises
    \/ GetTargetMetadata
    \/ IntegrityCheck
    \/ WriteRecord

Spec == Init /\ [][Next]_vars

\* target_blob.rewrite is a blocking call: it returns or raises, and the while
\* loop then runs its next pass.
FairSpec == Spec /\ WF_vars(RewriteProgress \/ RewriteDone \/ RewriteRaises)

-----------------------------------------------------------------------------
(* Properties *)

\* The copy of the current entry is complete and the target object differs
\* from the source object in a hash or in the content type.
Mismatch ==
    /\ pc \in {"target_meta", "check"}
    /\ \/ target_blob.md5_hash # source_blob.md5_hash
       \/ target_blob.crc32c # source_blob.crc32c
       \/ target_blob.content_type # source_blob.content_type

\* C1: when the target differs from the source in md5_hash, crc32c or
\* content-type after the copy, the run ends at the integrity check: nothing is
\* appended for the entry, no later entry is started, fetched or copied, and
\* nothing happens after the exit.
C1_MismatchEndsRun ==
    [][/\ Mismatch =>
            /\ meta_outfile' = meta_outfile
            /\ i' = i
            /\ source_blob' = source_blob
            /\ calls' = calls
            /\ target_store' = target_store
            /\ pc' \in {"check", "exited"}
       /\ (Mismatch /\ pc = "check") => pc' = "exited"
       /\ pc # "exited"]_vars

\* A run that ended at the integrity check of an entry that is not the last,
\* on a target whose CRC alone differs.
C1_Witness ==
    /\ pc = "exited"
    /\ i < Len(data)
    /\ target_blob.crc32c # source_blob.crc32c
    /\ target_blob.md5_hash = source_blob.md5_hash
    /\ target_blob.content_type = source_blob.content_type

\* The records the run has appended, in file order, as values.
NewRecords ==
    LET IsNew(text) == text # PriorContent
        new == SelectSeq(meta_outfile, IsNew)
    IN  [k \in 1..Len(new) |-> JsonLoads(new[k])]

\* What the output file held before the run.
PriorPart ==
    LET IsOld(text) == text = PriorContent
    IN  SelectSeq(meta_outfile, IsOld)

\* The part of `path` after its second "/", empty when it has fewer than two.
AfterSecondSlash(path) ==
    LET slashes == {k \in 1..Len(path) : path[k] = "/"}
    IN  IF Cardinality(slashes) < 2 THEN <<>>
        ELSE LET second == CHOOSE k \in slashes : Cardinality({j \in slashes : j < k}) = 1
             IN  [n \in 1..(Len(path) - second) |-> path[second + n]]

\* The target path the path-rewrite rule gives manifest entry j.
ExpectedTarget(j) ==
    IF data[j].node.bucket = "gbsc-gcp-project-mvp-phase-2-data"
    THEN AfterSecondSlash(data[j].node.path)
    ELSE data[j].node.path

\* C2: every record appended to the output file is {id, node}, with the id of
\* the manifest entry that produced it and the metadata of that entry's target
\* object.
C2_RecordIsIdAndNode ==
    \A j \in 1..Len(NewRecords) :
        /\ DOMAIN NewRecords[j] = {"id", "node"}
        /\ NewRecords[j].id = data[j].id
        /\ DOMAIN NewRecords[j].node = DOMAIN get_blob_metadata(SourceObject(TargetBucket, <<"a">>))
        /\ NewRecords[j].node["bucket"] = TargetBucket
        /\ NewRecords[j].node["path"] = ExpectedTarget(j)

\* C3: the exit status is non-zero when the run stops on an integrity
\* mismatch, and 0 only after every entry was processed without one.
C3_ExitStatusTellsOutcome ==
    /\ pc = "exited" => exit_status # 0
    /\ exit_status = 0 => (pc = "done" /\ i = Len(data) /\ Len(NewRecords) = Len(data))

\* A token that tells the loop the copy is complete.
EmptyToken(tok) == tok \in {None, ""}

\* The rewrite calls of the current entry follow the continuation protocol.
PollingProtocol ==
    /\ calls # <<>> => calls[1] = None
    /\ \A n \in 2..Len(calls) : calls[n] = results[n - 1]
    /\ \A n \in 1..(Len(results) - 1) : ~EmptyToken(results[n])
    /\ pc = "rewrite" => (Len(calls) = Len(results) /\ \A n \in 1..Len(results) : ~EmptyToken(results[n]))
    /\ pc \in {"target_meta", "check", "write"} =>
            /\ Len(calls) = Len(results)
            /\ results # <<>>
            /\ EmptyToken(results[Len(results)])

\* C4: the first rewrite call of an entry passes no token, every later call
\* passes the token the previous call returned, polling stops exactly at the
\* first call that returns an empty token, and the loop terminates.
C4_PollsUntilFirstEmptyToken ==
    /\ []PollingProtocol
    /\ (pc = "rewrite") ~> (pc # "rewrite")

\* A copy that took three rewrite calls, the later ones passing tokens.
C4_Witness ==
    /\ pc = "target_meta"
    /\ Len(calls) = 3
    /\ calls[2] # None /\ calls[3] # None /\ calls[3] # calls[2]

\* The value of field "path" of the metadata in a record, whatever its shape.
RecordPath(rec) == IF "node" \in DOMAIN rec THEN rec.node["path"] ELSE rec["path"]

\* The number of entries whose record must have been appended: all the
\* started ones between entries and at the end, all but the current otherwise.
EntriesLogged == IF pc \in {"for", "done"} THEN i ELSE i - 1

\* C5: entries are processed one at a time in manifest order, no step of
\* entry i+1 before the record of entry i is appended, and after a run in which
\* every entry passed the output file holds one new record per entry, in
\* manifest order, each with node.path the entry's target path.
C5_OneRecordPerEntryInOrder ==
    /\ Len(NewRecords) = EntriesLogged
    /\ i >= 1 /\ pc # "raised" => source_path = data[i].node.path
    /\ pc = "done" =>
            /\ Len(NewRecords) = Len(data)
            /\ \A j \in 1..Len(data) :
                  /\ "node" \in DOMAIN NewRecords[j]
                  /\ NewRecords[j].node["path"] = ExpectedTarget(j)

\* The part of C5 that does not depend on the shape of the record.
C5_OneRecordPerEntryInOrderAnyShape ==
    /\ Len(NewRecords) = EntriesLogged
    /\ i >= 1 /\ pc # "raised" => source_path = data[i].node.path
    /\ pc = "done" =>
            /\ Len(NewRecords) = Len(data)
            /\ \A j \in 1..Len(data) : RecordPath(NewRecords[j]) = ExpectedTarget(j)

\* C6: the target path is the source path without its first two segments for
\* the legacy bucket and the source path itself otherwise; the copy writes to
\* it and reads the source object at the unmodified source path.
C6_TargetPathRule ==
    pc \in {"get_blob", "rewrite", "target_meta", "check", "write", "exited"} =>
        /\ target_path = ExpectedTarget(i)
        /\ source_path = data[i].node.path
        /\ pc # "get_blob" =>
              /\ source_blob.bucket = data[i].node.bucket
              /\ source_blob.name = data[i].node.path
              /\ target_blob.bucket = TargetBucket
              /\ target_blob.name = ExpectedTarget(i)
        /\ pc \notin {"get_blob", "rewrite"} =>
              /\ ExpectedTarget(i) \in DOMAIN target_store
              /\ target_store[ExpectedTarget(i)].name = ExpectedTarget(i)
              /\ get_blob(source_store, data[i].node.bucket, data[i].node.path) = source_blob

\* A legacy-bucket object with more than two segments has been copied to the
\* trimmed path.
C6_Witness ==
    /\ pc = "check"
    /\ source_bucket_name = "gbsc-gcp-project-mvp-phase-2-data"
    /\ target_path # <<>>
    /\ Len(target_path) < Len(source_path)
    /\ target_path \in DOMAIN target_store

\* C7: an error raised while processing an entry is not caught or retried and
\* halts the run: a missing source object makes the run fail with NotFoundError
\* before any rewrite call of the entry, a failed rewrite call is not repeated,
\* and in both cases no record is appended and no later entry is started.
C7_ErrorsHaltRun ==
    [][/\ pc # "raised"
       /\ pc' = "raised" =>
              /\ meta_outfile' = meta_outfile
              /\ Len(NewRecords') = i' - 1
              /\ target_store' = target_store
       /\ (pc' = "raised" /\ source_blob' = NoneBlob) =>
              (exception' = "NotFound" /\ calls' = <<>>)
       /\ (pc' = "raised" /\ exception' = "TransportError") =>
              (pc = "rewrite" /\ calls' = Append(calls, token))]_vars

\* C7 with the exception of a missing source object left open.
C7_ErrorsHaltRunAnyException ==
    [][/\ pc # "raised"
       /\ pc' = "raised" =>
              /\ meta_outfile' = meta_outfile
              /\ Len(NewRecords') = i' - 1
              /\ target_store' = target_store
       /\ (pc' = "raised" /\ source_blob' = NoneBlob) => calls' = <<>>
       /\ (pc' = "raised" /\ exception' = "TransportError") =>
              (pc = "rewrite" /\ calls' = Append(calls, token))]_vars

\* The stages of an entry, in order.
Stages == <<"Fetched", "Copying", "Copied", "Verified", "Logged">>

\* The integrity properties of the two metadata records agree.
MetadataAgree(source, target) ==
    /\ source["md5_hash"] = target["md5_hash"]
    /\ source["crc23c"] = target["crc23c"]
    /\ source["content-type"] = target["content-type"]

\* C8: an entry passes Fetched, Copying, Copied, Verified, Logged in that
\* order, none skipped or revisited: source metadata is captured before the
\* first rewrite call, target metadata only after the loop saw an empty token,
\* the check runs on the metadata of this entry's objects, and the record is
\* appended only after the check passed.
C8_StagesInOrder ==
    [][/\ trace' = SubSeq(Stages, 1, Len(trace'))
       /\ calls' # <<>> =>
              /\ trace'[1] = "Fetched"
              /\ source_metadata' = get_blob_metadata(SourceObject(data[i].node.bucket, data[i].node.path))
       /\ "Copied" \in {trace'[n] : n \in 1..Len(trace')} =>
              (results' # <<>> /\ EmptyToken(results'[Len(results')]))
       /\ target_metadata' # target_metadata =>
              /\ trace = SubSeq(Stages, 1, 3)
              /\ target_metadata' = get_blob_metadata(target_store[ExpectedTarget(i)])
       /\ pc = "check" =>
              /\ trace = SubSeq(Stages, 1, 3)
              /\ source_metadata["path"] = data[i].node.path
              /\ target_metadata = get_blob_metadata(target_store[ExpectedTarget(i)])
              /\ (pc' = "write") = MetadataAgree(source_metadata, target_metadata)
       /\ meta_outfile' # meta_outfile =>
              /\ trace = SubSeq(Stages, 1, 4)
              /\ trace' = Stages
              /\ MetadataAgree(source_metadata, target_metadata)]_vars

\* An entry whose copy took several rewrite calls has been logged.
C8_Witness ==
    /\ trace = Stages
    /\ Len(calls) >= 2
    /\ i = 2

\* C9: the output file is only extended, what it held before the run and the
\* records of earlier entries stay, target objects are never removed, and when
\* the run stops at entry k on a mismatch the targets of entries 1..k are in
\* the target bucket and the file holds exactly the records of entries 1..k-1.
C9_NothingUndone ==
    [][/\ \/ meta_outfile' = meta_outfile
          \/ (Len(meta_outfile') = Len(meta_outfile) + 1
                /\ SubSeq(meta_outfile', 1, Len(meta_outfile)) = meta_outfile)
       /\ DOMAIN target_store \subseteq DOMAIN target_store'
       /\ pc' = "exited" =>
              /\ \A j \in 1..i' : ExpectedTarget(j) \in DOMAIN target_store'
              /\ meta_outfile' = PriorPart' \o [j \in 1..(i' - 1) |-> JsonDumps(NewRecords'[j])]
              /\ Len(NewRecords') = i' - 1
              /\ \A j \in 1..(i' - 1) : RecordPath(NewRecords'[j]) = ExpectedTarget(j)]_vars

\* A run over a file with earlier content stopped at its second entry.
C9_Witness ==
    /\ pc = "exited"
    /\ i = 2
    /\ Len(meta_outfile) = 2
    /\ meta_outfile[1] = PriorContent

\* C10: a source object is deleted, if at all, only after its own transfer has
\* passed the integrity check, and never in a run without the delete-source
\* flag: every source object stays in its bucket unchanged.
C10_SourceObjectsKept ==
    [][/\ ~delete_source => source_store' = source_store
       /\ source_store' \subseteq source_store
       /\ \A o \in source_store \ source_store' :
              /\ pc = "write"
              /\ o.bucket = source_bucket_name
              /\ o.name = source_path]_vars

\* A run without the flag has logged two entries and their sources exist.
C10_Witness ==
    /\ pc = "done"
    /\ ~delete_source
    /\ Len(data) = 2
    /\ \A j \in 1..2 : get_blob(source_store, data[j].node.bucket, data[j].node.path) # NoneBlob

====
